---- MODULE Spec2Model ----
(***************************************************************************)
(* A model of rust-mdbm (src/src/lib.rs): the safe wrapper MDBM / Lock     *)
(* over the mdbm engine.  The wrapper's functions are translated from the *)
(* source.  The engine (crate mdbm_sys) is an external C library: it is    *)
(* modelled from its interface contract (return codes, store modes,       *)
(* nestable exclusive lock owned by the calling thread).                   *)
(*                                                                         *)
(* The client is any safe Rust program using the API from several threads: *)
(* the borrow checker's rules on the signatures of lock() and get() are    *)
(* the guards of the drop actions.                                         *)
(***************************************************************************)
EXTENDS Integers, Sequences, FiniteSets, TLC

(* ------------------------------ bounds -------------------------------- *)

\* handles and guards alive at a time
MaxOpens == 2
MaxLocks == 2
\* the same, where every option and store mode is tried
StoreOpens == 1
StoreLocks == 1

Threads == {1, 2}

\* byte strings given as keys, values and paths
KeyInputs == {<<104>>, <<104, 105>>}
ValueInputs == {<<119>>, <<119, 111>>}
StoreInputs == {<<(<<104>>), (<<119>>)>>, <<(<<104>>), (<<119, 111>>)>>}
PathInputs == {<<116>>, <<116, 0, 98>>}

(* ------------------------- engine constants --------------------------- *)

MDBM_O_RDONLY == 0
MDBM_O_WRONLY == 1
MDBM_O_RDWR == 2
MDBM_O_ACCMODE == 3
MDBM_O_CREAT == 64

MDBM_INSERT == 0
MDBM_REPLACE == 1
MDBM_STORE_MASK == 3

MDBM_HASH_FNV == 5
MDBM_HASH_JENKINS == 9

NULL == 0

\* lock(k, flags) passes its flags through; Drop for Lock passes UNLOCK_FLAGS
UNLOCK_FLAGS == 0
LockInputs == {<<(<<104>>), 0>>, <<(<<104, 105>>), 1>>}
StoreFlagInputs == {MDBM_INSERT, MDBM_REPLACE}

\* what the lock calls return while the lock table is inconsistent
FaultRcs == {-1, 0, 2}
SyncRcs == {0, -1}

(* --------------------------- pure functions --------------------------- *)

None == [some |-> FALSE]
Some(x) == [some |-> TRUE, val |-> x]

RECURSIVE BitOr(_, _)
BitOr(a, b) ==
    IF a = 0 THEN b
    ELSE IF b = 0 THEN a
    ELSE (IF a % 2 = 1 \/ b % 2 = 1 THEN 1 ELSE 0) + 2 * BitOr(a \div 2, b \div 2)

\* ReadState::flag
flag(reads) ==
    CASE reads = "ReadOnly" -> MDBM_O_RDONLY
      [] reads = "WriteOnly" -> MDBM_O_WRONLY
      [] reads = "ReadWrite" -> MDBM_O_RDWR

\* HashFunction::hash_constant
hash_constant(h) ==
    CASE h = "FNV" -> MDBM_HASH_FNV
      [] h = "JENKINS" -> MDBM_HASH_JENKINS

\* the create flag left out
into_create_dropped(options) == flag(options.reads)

\* impl Into<u32> for Options
into(options) ==
    LET f == flag(options.reads)
    IN  IF ~options.create THEN f ELSE BitOr(f, MDBM_O_CREAT)

\* Options::default()
default == [reads |-> "ReadWrite", create |-> TRUE, hash |-> None]

\* every Options value (of the hash functions, those of OptionInputs)
ReadStates == {"ReadOnly", "WriteOnly", "ReadWrite"}
HashInputs == {"FNV", "JENKINS"}
AllOptions ==
    [reads : ReadStates, create : BOOLEAN, hash : {None} \cup {Some(h) : h \in HashInputs}]

OptionInputs ==
    { default,
      [reads |-> "WriteOnly", create |-> TRUE, hash |-> Some("JENKINS")],
      [reads |-> "ReadOnly", create |-> TRUE, hash |-> Some("JENKINS")],
      [reads |-> "ReadWrite", create |-> FALSE, hash |-> Some("FNV")] }

\* a usize n is the pair <<hi, lo>> with n = hi * 2^31 + lo and lo < 2^31
HALF_C_INT == 1073741824

usize(n) == <<0, n>>

\* `as libc::c_int`: the low 32 bits, read as a signed number
as_c_int(u) ==
    IF u[1] % 2 = 0 THEN u[2] ELSE (u[2] - HALF_C_INT) - HALF_C_INT

\* Datum::new / AsDatum::as_datum: a borrowed view of the bytes
as_datum(bytes) == [bytes |-> bytes]

\* to_raw_datum: the (pointer, length) pair handed to the engine
to_raw_datum(datum) ==
    [dptr |-> datum.bytes, dsize |-> as_c_int(usize(Len(datum.bytes)))]

\* the lengths given to to_raw_datum: those near 0 and those just below each
\* multiple of 2^31, up to LenHi * 2^31 + (2^31 - 1)
LenHi == 3
LenLo == 12
LengthInputs ==
    (0..LenHi) \X ((0..LenLo) \cup {((HALF_C_INT - 1) - i) + HALF_C_INT : i \in 0..LenLo})

\* CString::new: Err (NulError) when the bytes hold a 0, else the bytes and a 0
HasNul(bytes) == \E i \in 1..Len(bytes) : bytes[i] = 0

CString_new(bytes) ==
    IF HasNul(bytes) THEN [ok |-> FALSE] ELSE [ok |-> TRUE, raw |-> bytes \o <<0>>]

(* ------------------------------ the engine ---------------------------- *)
(* State of the engine: the store files (records, lock word), the          *)
(* descriptors (a descriptor is a slot number, NULL is 0; a closed slot is *)
(* handed out again), and the log of the calls made since the present      *)
(* wrapper operation began.                                                *)

\* the C string at a pointer: the bytes before the first 0
RECURSIVE CStr(_)
CStr(raw) ==
    IF raw = <<>> \/ Head(raw) = 0 THEN <<>> ELSE <<Head(raw)>> \o CStr(Tail(raw))

EnginePaths == {CStr(p \o <<0>>) : p \in PathInputs}
DescIds == 1..MaxOpens

NoFile == [exists |-> FALSE, data |-> <<>>, owner |-> 0, count |-> 0, fault |-> FALSE]
NoDesc == [state |-> "closed", path |-> <<>>, flags |-> 0, hash |-> NULL]

EngineInit ==
    [files |-> [p \in EnginePaths |-> NoFile],
     descs |-> [d \in DescIds |-> NoDesc],
     afterClose |-> FALSE,
     log |-> <<>>]

Call(fn, db, key, val, flags, rc) ==
    [fn |-> fn, db |-> db, key |-> key, val |-> val, flags |-> flags, rc |-> rc]

\* the engine after a call: e with the call logged, and with a note when the
\* call's descriptor was not open as the call was made
Logged(e, c) ==
    [e EXCEPT !.log = Append(e.log, c),
              !.afterClose = e.afterClose \/
                  (c.fn \notin {"mdbm_open", "mdbm_close"} /\ e.descs[c.db].state = "closed")]

\* mdbm_close on a descriptor that is not open is noted as well
CloseNoted(e, d) == [e EXCEPT !.afterClose = e.afterClose \/ e.descs[d].state = "closed"]

\* the bytes the engine reads through a (pointer, length) pair
DatumOk(raw) == raw.dsize >= 0 /\ raw.dsize <= Len(raw.dptr)
ReadDatum(raw) == SubSeq(raw.dptr, 1, raw.dsize)

AccMode(flags) == flags % (MDBM_O_ACCMODE + 1)
HasCreat(flags) == (flags \div MDBM_O_CREAT) % 2 = 1

FreeDescs(e) == {d \in DescIds : e.descs[d].state = "closed"}

\* mdbm_open: the outcomes [db, eng].  A missing file is created under
\* MDBM_O_CREAT (read-only, the engine may refuse); without MDBM_O_CREAT a
\* missing file gives NULL.
mdbm_open(e, path, flags, mode, psize, presize) ==
    LET p == CStr(path)
        d == CHOOSE x \in FreeDescs(e) : \A y \in FreeDescs(e) : x <= y
        opened ==
            [db |-> d,
             eng |-> Logged([e EXCEPT
                               !.files[p].exists = TRUE,
                               !.descs[d] = [state |-> "open", path |-> p,
                                             flags |-> flags, hash |-> NULL]],
                            Call("mdbm_open", d, path, <<>>, flags, d))]
        failed == [db |-> NULL, eng |-> Logged(e, Call("mdbm_open", NULL, path, <<>>, flags, NULL))]
    IN  IF p \notin DOMAIN e.files \/ FreeDescs(e) = {} THEN {failed}
        ELSE IF e.files[p].exists THEN {opened}
        ELSE IF ~HasCreat(flags) THEN {failed}
        ELSE IF AccMode(flags) = MDBM_O_RDONLY THEN {failed, opened}
        ELSE {opened}

\* mdbm_set_hash: selects the hash function of the descriptor's store
mdbm_set_hash(e, d, hashid) ==
    Logged([e EXCEPT !.descs[d].hash = hashid],
           Call("mdbm_set_hash", d, <<>>, <<>>, hashid, 1))

\* mdbm_store: [rc, eng].  -1: error (read-only descriptor, bad datum);
\* 1: MDBM_INSERT and the key exists, nothing stored; 0: stored.
mdbm_store(e, d, key, val, flags) ==
    LET p == e.descs[d].path
        data == e.files[p].data
        mode == flags % (MDBM_STORE_MASK + 1)
        k == ReadDatum(key)
        v == ReadDatum(val)
        rc == IF AccMode(e.descs[d].flags) = MDBM_O_RDONLY \/ ~DatumOk(key) \/ ~DatumOk(val)
                   \/ k = <<>>
              THEN -1
              ELSE IF mode = MDBM_INSERT /\ k \in DOMAIN data THEN 1 ELSE 0
        e1 == IF rc = 0
              THEN [e EXCEPT !.files[p].data =
                      [x \in DOMAIN data \cup {k} |-> IF x = k THEN v ELSE data[x]]]
              ELSE e
    IN  [rc |-> rc, eng |-> Logged(e1, Call("mdbm_store", d, key, val, flags, rc))]

\* a pointer into a store's pages: the value of a record; or the null pointer
NULL_PTR == [null |-> TRUE, path |-> <<>>, key |-> <<>>]
is_null(ptr) == ptr.null

\* mdbm_fetch: [value, eng]: the datum of the record, pointing into the
\* store's pages, or a NULL pointer when the key has no record
mdbm_fetch(e, d, key) ==
    LET p == e.descs[d].path
        data == e.files[p].data
        value == IF DatumOk(key) /\ ReadDatum(key) \in DOMAIN data
                 THEN [dptr |-> [null |-> FALSE, path |-> p, key |-> ReadDatum(key)],
                       dsize |-> Len(data[ReadDatum(key)])]
                 ELSE [dptr |-> NULL_PTR, dsize |-> 0]
    IN  [value |-> value,
         eng |-> Logged(e, Call("mdbm_fetch", d, key, <<>>, 0, value.dsize))]

\* the bytes now at a pointer mdbm_fetch returned (none at the null pointer)
Deref(e, dptr) ==
    IF ~dptr.null /\ dptr.key \in DOMAIN e.files[dptr.path].data
    THEN e.files[dptr.path].data[dptr.key]
    ELSE <<>>

\* a lock that takes no account of its owner
mdbm_lock_smart_unowned(e, d, key, flags, thread) ==
    {[rc |-> 1,
      eng |-> Logged([e EXCEPT !.files[e.descs[d].path].owner = thread,
                               !.files[e.descs[d].path].count = @ + 1],
                     Call("mdbm_lock_smart", d, key, <<>>, flags, 1))]}

\* mdbm_lock_smart: the outcomes [rc, eng] for the calling thread.  Opened
\* without partition or shared lock flags, the store has one exclusive lock,
\* nestable by its owner; the call blocks (no outcome) while another thread
\* owns it.  With an inconsistent lock table it returns an error code.
mdbm_lock_smart(e, d, key, flags, thread) ==
    LET p == e.descs[d].path
        f == e.files[p]
        c(rc) == Call("mdbm_lock_smart", d, key, <<>>, flags, rc)
    IN  IF f.fault THEN {[rc |-> r, eng |-> Logged(e, c(r))] : r \in FaultRcs}
        ELSE IF f.owner \in {0, thread}
        THEN {[rc |-> 1,
               eng |-> Logged([e EXCEPT !.files[p].owner = thread,
                                        !.files[p].count = f.count + 1], c(1))]}
        ELSE {}

\* mdbm_unlock_smart: the outcomes [rc, eng]; 1 is success
mdbm_unlock_smart(e, d, key, flags, thread) ==
    LET p == e.descs[d].path
        f == e.files[p]
        c(rc) == Call("mdbm_unlock_smart", d, key, <<>>, flags, rc)
    IN  IF f.fault THEN {[rc |-> r, eng |-> Logged(e, c(r))] : r \in FaultRcs}
        ELSE IF f.owner = thread /\ f.count > 0
        THEN {[rc |-> 1,
               eng |-> Logged([e EXCEPT
                                 !.files[p].owner = IF f.count = 1 THEN 0 ELSE thread,
                                 !.files[p].count = f.count - 1], c(1))]}
        ELSE {[rc |-> -1, eng |-> Logged(e, c(-1))]}

\* mdbm_sync: flushes; the outcomes, one for each return code
mdbm_sync(e, d) ==
    {[rc |-> r, eng |-> Logged(e, Call("mdbm_sync", d, <<>>, <<>>, 0, r))] : r \in SyncRcs}

\* mdbm_close: releases the descriptor: its slot is free again
mdbm_close(e, d) ==
    Logged([CloseNoted(e, d) EXCEPT !.descs[d] = [NoDesc EXCEPT !.path = e.descs[d].path]],
           Call("mdbm_close", d, <<>>, <<>>, 0, 0))

(* ------------------------------ the wrapper --------------------------- *)

VARIABLES
    engine,          \* the engine's state
    handles,         \* the MDBM values alive, by slot; options: those given to new
    guards,          \* the Lock values alive, by slot; locked: the lock call made
    views,           \* the live &[u8] borrows returned by Lock::get; bytes: what
                     \* the slice held when get returned it
    panicking,       \* the threads unwinding after a failed assert_eq!
    aborted,         \* the process was aborted
    written,         \* per store and key, the value of the latest set that returned Ok
    exited,          \* the threads whose scope holding the values has ended
    last             \* the latest wrapper operation: its arguments and result

vars == <<engine, handles, guards, views, panicking, aborted, written, exited, last>>

HandleIds == 1..MaxOpens
GuardIds == 1..MaxLocks

NoHandle == [state |-> "none", db |-> NULL, thread |-> 0, options |-> default]
NoCall == Call("none", 0, <<>>, <<>>, 0, 0)
NoGuard == [state |-> "none", db |-> 0, key |-> as_datum(<<>>), borrow |-> 0, locked |-> NoCall]

NoLast ==
    [op |-> "none", h |-> 0, g |-> 0, key |-> <<>>, result |-> "none", got |-> None,
     options |-> default]

Init ==
    /\ engine = EngineInit
    /\ handles = [h \in HandleIds |-> NoHandle]
    /\ guards = [g \in GuardIds |-> NoGuard]
    /\ views = {}
    /\ panicking = {}
    /\ aborted = FALSE
    /\ written = [p \in EnginePaths |-> <<>>]
    /\ exited = {}
    /\ last = NoLast

Running(t) == ~aborted /\ t \notin panicking /\ t \notin exited

LiveHandles == {h \in HandleIds : handles[h].state = "live"}
LiveGuards == {g \in GuardIds : guards[g].state = "live"}
Lowest(S) == CHOOSE x \in S : \A y \in S : x <= y

\* the engine as a wrapper operation begins: no call made yet
Begin == [engine EXCEPT !.log = <<>>]

\* the path handed on without the check for a 0 byte
new_path_unchecked(path_vec) == [ok |-> TRUE, raw |-> path_vec \o <<0>>]

\* MDBM::new, lines 117-118: the engine is called only with a path CString::new accepts
new_path(path_vec) == CString_new(path_vec)

\* MDBM::new, lines 130-132: a null descriptor is an error
new_result(db) == IF db = NULL THEN "OsError" ELSE "Ok"

\* MDBM::new, lines 133-138: the hash function is selected when the options name one
new_hash(e, db, options) ==
    IF options.hash.some THEN mdbm_set_hash(e, db, hash_constant(options.hash.val)) ELSE e

\* MDBM::new
New(t, path, options, mode, psize, presize) ==
    /\ Running(t)
    /\ LiveHandles # HandleIds
    /\ LET path_cstring == new_path(path)
           flag_u32 == into(options)
           h == Lowest(HandleIds \ LiveHandles)
           l == [NoLast EXCEPT !.op = "new", !.key = path, !.options = options]
       IN  IF ~path_cstring.ok
           THEN /\ last' = [l EXCEPT !.result = "InvalidInput"]
                /\ engine' = Begin
                /\ UNCHANGED handles
           ELSE \E out \in mdbm_open(Begin, path_cstring.raw, flag_u32, mode, psize, presize) :
                  IF new_result(out.db) = "OsError"
                  THEN /\ last' = [l EXCEPT !.result = "OsError"]
                       /\ engine' = out.eng
                       /\ UNCHANGED handles
                  ELSE /\ engine' = new_hash(out.eng, out.db, options)
                       /\ handles' = [handles EXCEPT ![h] =
                                        [state |-> "live", db |-> out.db, thread |-> t,
                                         options |-> options]]
                       /\ last' = [l EXCEPT !.result = "Ok", !.h = h]
    /\ UNCHANGED <<guards, views, panicking, aborted, written, exited>>

\* the test of the return code of mdbm_store the wrong way round
set_result_inverted(rc) == IF rc = -1 THEN "Ok" ELSE "OsError"

\* every return code of mdbm_store other than 0 taken for a failure
set_result_zero_only(rc) == IF rc = 0 THEN "Ok" ELSE "OsError"

\* the return code of mdbm_store not looked at
set_result_ignored(rc) == "Ok"

\* MDBM::set, lines 157-161
set_result(rc) == IF rc = -1 THEN "OsError" ELSE "Ok"

\* MDBM::set
set(h, key, value, flags) ==
    /\ h \in LiveHandles
    /\ Running(handles[h].thread)
    /\ LET db == handles[h].db
           out == mdbm_store(Begin, db, to_raw_datum(as_datum(key)),
                             to_raw_datum(as_datum(value)), flags)
           p == engine.descs[db].path
       IN  /\ engine' = out.eng
           /\ last' = [NoLast EXCEPT !.op = "set", !.h = h, !.key = key,
                                     !.result = set_result(out.rc)]
           /\ written' =
                IF set_result(out.rc) = "Ok"
                THEN [written EXCEPT ![p] =
                        [x \in DOMAIN written[p] \cup {key} |->
                            IF x = key THEN value ELSE written[p][x]]]
                ELSE written
    /\ UNCHANGED <<handles, guards, views, panicking, aborted, exited>>

\* return code 0 taken for success, as for most C calls
lock_result_zero(rc) == IF rc = 0 THEN "Ok" ELSE "OsError"

\* any positive return code taken for success
lock_result_positive(rc) == IF rc >= 1 THEN "Ok" ELSE "OsError"

\* MDBM::lock, lines 178-185
lock_result(rc) == IF rc = 1 THEN "Ok" ELSE "OsError"

\* a guard that borrows nothing
lock_lifetime_unbound(h) == 0

\* MDBM::lock, line 166: `&'a self` and `&'a K` bound Lock<'a>: the guard
\* borrows the handle it was taken on
lock_lifetime(h) == h

\* MDBM::lock
lock(h, key, flags) ==
    /\ h \in LiveHandles
    /\ Running(handles[h].thread)
    /\ LiveGuards # GuardIds
    /\ LET g == Lowest(GuardIds \ LiveGuards)
           l == [NoLast EXCEPT !.op = "lock", !.h = h, !.key = key]
       IN  \E out \in mdbm_lock_smart(Begin, handles[h].db, to_raw_datum(as_datum(key)),
                                      flags, handles[h].thread) :
              /\ engine' = out.eng
              /\ IF lock_result(out.rc) = "Ok"
                 THEN /\ guards' = [guards EXCEPT ![g] =
                                      [state |-> "live", db |-> h, key |-> as_datum(key),
                                       borrow |-> lock_lifetime(h),
                                       locked |-> out.eng.log[1]]]
                      /\ last' = [l EXCEPT !.result = "Ok", !.g = g]
                 ELSE /\ guards' = guards
                      /\ last' = [l EXCEPT !.result = "OsError"]
    /\ UNCHANGED <<handles, views, panicking, aborted, written, exited>>

\* a view that borrows nothing
get_lifetime_unbound(g) == 0

\* Lock::get, line 244: `&'a self` bounds the returned `&'a [u8]`: the view
\* borrows the guard
get_lifetime(g) == g

\* the fetched pointer not tested for null
get_value_unchecked(value) == Some([dptr |-> value.dptr, len |-> value.dsize])

\* Lock::get, lines 248-254: slice::from_raw_parts(dptr, dsize as usize)
get_value(value) ==
    IF is_null(value.dptr) THEN None ELSE Some([dptr |-> value.dptr, len |-> value.dsize])

\* the bytes read through a view
ViewBytes(e, v) == SubSeq(Deref(e, v.dptr), 1, v.len)

\* Lock::get
get(g) ==
    /\ g \in LiveGuards
    /\ Running(handles[guards[g].db].thread)
    /\ LET out == mdbm_fetch(Begin, handles[guards[g].db].db, to_raw_datum(guards[g].key))
           r == get_value(out.value)
       IN  /\ engine' = out.eng
           /\ views' = IF r.some
                       THEN views \cup {[lock |-> g, borrow |-> get_lifetime(g),
                                         dptr |-> r.val.dptr, len |-> r.val.len,
                                         bytes |-> ViewBytes(engine, r.val)]}
                       ELSE views
           /\ last' = [NoLast EXCEPT !.op = "get", !.h = guards[g].db, !.g = g,
                          !.key = guards[g].key.bytes,
                          !.result = IF r.some THEN "Some" ELSE "None",
                          !.got = IF r.some THEN Some(ViewBytes(engine, r.val)) ELSE None]
    /\ UNCHANGED <<handles, guards, panicking, aborted, written, exited>>

\* a view returned by get goes out of scope
drop_view(v) ==
    /\ ~aborted
    /\ v \in views
    /\ views' = views \ {v}
    /\ UNCHANGED <<engine, handles, guards, panicking, aborted, written, exited, last>>

\* what a panic does is the build's choice: the thread unwinds, or the process aborts
PanicStrategies == {"unwind", "abort"}

\* the unlock call given the flags of the lock call
drop_Lock_unlock_lock_flags(e, db, self, thread) ==
    mdbm_unlock_smart(e, db, to_raw_datum(self.key), self.locked.flags, thread)

\* Drop for Lock, line 262: the unlock call, on the handle's descriptor, with
\* the guard's key and flags 0
drop_Lock_unlock(e, db, self, thread) ==
    mdbm_unlock_smart(e, db, to_raw_datum(self.key), UNLOCK_FLAGS, thread)

\* Drop for Lock, line 264: assert_eq!(rc, 1)
drop_Lock_assert(rc) == rc = 1

\* Drop for Lock.  The borrow checker lets the guard go only when no view
\* borrows it.  A failed assertion is a panic: the thread unwinds (its other
\* guards and handles are dropped), or the process aborts, as the build's
\* panic strategy says; a panic while unwinding aborts.
drop_Lock(g) ==
    /\ ~aborted
    /\ g \in LiveGuards
    /\ \A v \in views : v.borrow # g
    /\ LET h == guards[g].db
           t == handles[h].thread
       IN  \E out \in drop_Lock_unlock(Begin, handles[h].db, guards[g], t),
              panic_strategy \in PanicStrategies :
              LET ok == drop_Lock_assert(out.rc)
              IN  /\ engine' = out.eng
                  /\ guards' = [guards EXCEPT ![g] = NoGuard]
                  /\ aborted' = (~ok /\ (panic_strategy = "abort" \/ t \in panicking))
                  /\ panicking' = IF ok THEN panicking ELSE panicking \cup {t}
                  /\ last' = [NoLast EXCEPT !.op = "drop_Lock", !.h = h, !.g = g,
                                 !.key = guards[g].key.bytes,
                                 !.result = IF ok THEN "Ok" ELSE "Panic"]
    /\ UNCHANGED <<handles, views, written, exited>>

\* the descriptor synced and left open
drop_MDBM_engine_sync_only(e, db) == {s.eng : s \in mdbm_sync(e, db)}

\* the descriptor closed only when sync succeeded
drop_MDBM_engine_close_if_synced(e, db) ==
    {IF s.rc = 0 THEN mdbm_close(s.eng, db) ELSE s.eng : s \in mdbm_sync(e, db)}

\* Drop for MDBM, lines 192-193: sync, then close, whatever sync returned
drop_MDBM_engine(e, db) == {mdbm_close(s.eng, db) : s \in mdbm_sync(e, db)}

\* Drop for MDBM.  The borrow checker lets the handle go only when no guard
\* borrows it.
drop_MDBM(h) ==
    /\ ~aborted
    /\ h \in LiveHandles
    /\ \A g \in LiveGuards : guards[g].borrow # h
    /\ \E e \in drop_MDBM_engine(Begin, handles[h].db) : engine' = e
    /\ handles' = [handles EXCEPT ![h] = NoHandle]
    /\ last' = [NoLast EXCEPT !.op = "drop_MDBM", !.h = h, !.result = "Ok"]
    /\ UNCHANGED <<guards, views, panicking, aborted, written, exited>>

\* the environment: the store's lock table becomes inconsistent
LockTableFault(p) ==
    /\ ~aborted
    /\ engine.files[p].exists
    /\ ~engine.files[p].fault
    /\ engine' = [engine EXCEPT !.files[p].fault = TRUE]
    /\ UNCHANGED <<handles, guards, views, panicking, aborted, written, exited, last>>

\* the scope of thread t that holds its handles, guards and views ends: the
\* thread makes no further call, and what it still holds is dropped
Exit(t) ==
    /\ Running(t)
    /\ exited' = exited \cup {t}
    /\ UNCHANGED <<engine, handles, guards, views, panicking, aborted, written, last>>

\* the threads leaving their scope: by its end, or by unwinding from a panic
Leaving == exited \cup panicking

\* to_raw_datum on a datum of len bytes, line 233: the dsize it hands to the
\* engine (key: the length, got: the dsize)
to_raw_datum_len(len) ==
    /\ ~aborted
    /\ last' = [NoLast EXCEPT !.op = "to_raw_datum", !.key = len,
                   !.got = Some(as_c_int(len))]
    /\ UNCHANGED <<engine, handles, guards, views, panicking, aborted, written, exited>>

\* the wrapper's operations, with their inputs drawn from the given sets
\* (stores: the <<key, value>> pairs given to set, locks: the <<key, flags>>
\* pairs given to lock), at most maxOpens handles and maxLocks guards alive
\* at a time
Api(threads, paths, options, stores, sflags, locks, maxOpens, maxLocks) ==
    \/ \E t \in threads, path \in paths, o \in options :
          Cardinality(LiveHandles) < maxOpens /\ New(t, path, o, 420, 0, 0)
    \/ \E h \in HandleIds, kv \in stores, flags \in sflags :
          set(h, kv[1], kv[2], flags)
    \/ \E h \in HandleIds, kf \in locks :
          Cardinality(LiveGuards) < maxLocks /\ lock(h, kf[1], kf[2])
    \/ \E g \in GuardIds : get(g)
    \/ \E v \in views : drop_view(v)
    \/ \E g \in GuardIds : drop_Lock(g)
    \/ \E h \in HandleIds : drop_MDBM(h)

\* one thread, a sound lock table: every option, path, store mode
NextStore ==
    Api({1}, PathInputs, OptionInputs, StoreInputs, StoreFlagInputs,
        KeyInputs \X {0}, StoreOpens, StoreLocks)

\* one thread, and a lock table that may become inconsistent
Next ==
    \/ Api({1}, {<<116>>}, {default}, {<<(<<104>>), (<<119>>)>>}, {MDBM_REPLACE},
           LockInputs, MaxOpens, MaxLocks)
    \/ \E p \in EnginePaths : LockTableFault(p)

\* two threads, a sound lock table
NextExcl ==
    Api(Threads, {<<116>>}, {default}, {<<(<<104>>), (<<119>>)>>}, {MDBM_REPLACE},
        KeyInputs \X {0}, MaxOpens, MaxLocks)

\* two threads, and a lock table that may become inconsistent
NextPanic ==
    \/ Api(Threads, {<<116>>}, {default}, {<<(<<104>>), (<<119>>)>>}, {MDBM_REPLACE},
           {<<(<<104>>), 0>>}, MaxOpens, MaxLocks)
    \/ \E p \in EnginePaths : LockTableFault(p)

\* one thread opening and closing with every Options value
NextOpen ==
    \/ \E path \in PathInputs, o \in AllOptions :
          Cardinality(LiveHandles) < MaxOpens /\ New(1, path, o, 420, 0, 0)
    \/ \E h \in HandleIds : drop_MDBM(h)

\* one thread that works and then leaves its scope, and a lock table that may
\* become inconsistent
NextExit ==
    \/ Api({1}, {<<116>>}, {default}, StoreInputs, {MDBM_REPLACE},
           LockInputs, StoreOpens, StoreLocks)
    \/ \E t \in {1} : Exit(t)
    \/ \E p \in EnginePaths : LockTableFault(p)

\* Drop glue: when a thread leaves its scope the values it holds are dropped,
\* the borrowers before what they borrow
DropGlue ==
    /\ WF_vars(\E v \in views :
                  handles[guards[v.lock].db].thread \in Leaving /\ drop_view(v))
    /\ WF_vars(\E g \in GuardIds :
                  /\ g \in LiveGuards
                  /\ handles[guards[g].db].thread \in Leaving
                  /\ drop_Lock(g))
    /\ WF_vars(\E h \in HandleIds :
                  h \in LiveHandles /\ handles[h].thread \in Leaving /\ drop_MDBM(h))

\* to_raw_datum over the lengths a slice can have
NextDatum == \E len \in LengthInputs : to_raw_datum_len(len)

Spec == Init /\ [][Next]_vars
SpecDatum == Init /\ [][NextDatum]_vars
SpecExit == Init /\ [][NextExit]_vars /\ DropGlue
SpecOpen == Init /\ [][NextOpen]_vars
SpecStore == Init /\ [][NextStore]_vars
SpecExcl == Init /\ [][NextExcl]_vars
SpecPanic == Init /\ [][NextPanic]_vars

(* ------------------------------ properties ---------------------------- *)
(* `last` and engine.log describe the latest wrapper operation and the     *)
(* engine calls it made; no other action changes them.                     *)

\* the store a live handle is open on
StoreOf(h) == engine.descs[handles[h].db].path

\* the calls of a log to one of the named engine functions
CallsTo(log, fns) == {i \in 1..Len(log) : log[i].fn \in fns}

\* C1: round trip.  After a get through a handle opened with create = true,
\* when a set of the guard's key returned Ok and no later set of that key did,
\* the bytes get returned are those of that set.
C1_RoundTrip ==
    (/\ last.op = "get"
     /\ handles[last.h].options.create
     /\ last.key \in DOMAIN written[StoreOf(last.h)])
        => last.got = Some(written[StoreOf(last.h)][last.key])

\* a get that returned the value of the latest set
C1_Witness ==
    /\ last.op = "get"
    /\ handles[last.h].options.create
    /\ last.key \in DOMAIN written[StoreOf(last.h)]
    /\ last.got = Some(written[StoreOf(last.h)][last.key])

\* C2: a set on a handle opened ReadOnly returns an OS error; a set on a
\* handle opened WriteOnly with create = true returns Ok.
C2_ReadOnlySetFails ==
    last.op = "set" =>
        /\ handles[last.h].options.reads = "ReadOnly" => last.result = "OsError"
        /\ (handles[last.h].options.reads = "WriteOnly" /\ handles[last.h].options.create)
              => last.result = "Ok"

\* a set on a ReadOnly handle, on a store that holds a record written through
\* an earlier handle
C2_Witness ==
    /\ last.op = "set"
    /\ handles[last.h].options.reads = "ReadOnly"
    /\ last.result = "OsError"
    /\ DOMAIN written[StoreOf(last.h)] # {}

\* C3: no view outlives its lock.  Every view that is still accessible was
\* returned by a guard that is alive (not yet unlocked), for that guard's key.
C3_NoViewOutlivesLock ==
    \A v \in views :
        /\ guards[v.lock].state = "live"
        /\ guards[v.lock].key.bytes = v.dptr.key

\* a guard was dropped while a view of another guard is accessible
C3_Witness ==
    /\ last.op = "drop_Lock"
    /\ views # {}

\* C4: no lock outlives its handle.  Every live guard, and so every view,
\* refers to a live handle whose descriptor is open, the one the guard's lock
\* call was made on; no engine call is made on a closed descriptor.
C4_NoLockOutlivesHandle ==
    /\ \A g \in LiveGuards :
          /\ handles[guards[g].db].state = "live"
          /\ handles[guards[g].db].db = guards[g].locked.db
          /\ engine.descs[guards[g].locked.db].state = "open"
    /\ \A v \in views : v.lock \in LiveGuards
    /\ ~engine.afterClose

\* a handle was closed while a guard taken on another handle is alive
C4_Witness ==
    /\ last.op = "drop_MDBM"
    /\ LiveGuards # {}

\* C5: unlock exactly once.  The step that destroys a guard makes one engine
\* call: mdbm_unlock_smart on the descriptor and with the key of the guard's
\* lock call, with flags 0; a step that destroys no guard makes no unlock
\* call.
C5_UnlockExactlyOnce ==
    [][/\ \A g \in GuardIds :
             (guards[g].state = "live" /\ guards'[g].state = "none") =>
                 /\ Len(engine'.log) = 1
                 /\ engine'.log[1].fn = "mdbm_unlock_smart"
                 /\ engine'.log[1].db = guards[g].locked.db
                 /\ engine'.log[1].key = guards[g].locked.key
                 /\ engine'.log[1].flags = 0
       /\ ((\A g \in GuardIds : guards[g].state = "live" => guards'[g].state = "live")
             /\ engine'.log # engine.log)
              => CallsTo(engine'.log, {"mdbm_unlock_smart"}) = {}
      ]_vars

\* a guard taken by a lock call with flags other than 0 was dropped
C5_Witness ==
    /\ last.op = "drop_Lock"
    /\ \E kf \in LockInputs : kf[1] = last.key /\ kf[2] # 0
    /\ engine.log[1].flags = 0

\* C6: handle teardown.  The step that destroys a handle makes two engine
\* calls on the handle's descriptor: mdbm_sync, then mdbm_close, whatever sync
\* returned; a step that destroys no handle makes neither call; no call is
\* made on a closed descriptor.
C6_HandleTeardown ==
    [][/\ \A h \in HandleIds :
             (handles[h].state = "live" /\ handles'[h].state = "none") =>
                 /\ Len(engine'.log) = 2
                 /\ engine'.log[1].fn = "mdbm_sync"
                 /\ engine'.log[1].db = handles[h].db
                 /\ engine'.log[2].fn = "mdbm_close"
                 /\ engine'.log[2].db = handles[h].db
       /\ ((\A h \in HandleIds : handles[h].state = "live" => handles'[h].state = "live")
             /\ engine'.log # engine.log)
              => CallsTo(engine'.log, {"mdbm_sync", "mdbm_close"}) = {}
       /\ ~engine'.afterClose
      ]_vars

\* a handle was dropped, sync failed, the descriptor was closed
C6_Witness ==
    /\ last.op = "drop_MDBM"
    /\ engine.log[1].fn = "mdbm_sync"
    /\ engine.log[1].rc = -1
    /\ engine.descs[engine.log[1].db].state = "closed"

\* C7: fatal unlock failure.  Once an unlock call at a guard's destruction
\* has returned a value other than 1, the program is stopped: no wrapper
\* operation other than a destructor of the unwinding is performed.
C7_FatalUnlockFailure ==
    [][(panicking # {} \/ aborted)
          => (last' = last \/ last'.op \in {"drop_Lock", "drop_MDBM"})]_vars

\* the unlock failure is a panic, never a value returned to the caller
C7_Witness ==
    /\ last.op = "drop_Lock"
    /\ last.result = "Panic"
    /\ engine.log[1].rc # 1

\* C8: a lock step makes one mdbm_lock_smart call; when it returned 1 the
\* result is Ok and one guard is created, for every other value the result is
\* an OS error and no guard is created.
C8_GuardIffOne ==
    [][(last'.op = "lock" /\ last' # last) =>
          /\ Len(engine'.log) = 1
          /\ engine'.log[1].fn = "mdbm_lock_smart"
          /\ IF engine'.log[1].rc = 1
             THEN /\ last'.result = "Ok"
                  /\ \E g \in GuardIds :
                        /\ guards[g].state = "none"
                        /\ guards'[g].state = "live"
                        /\ \A x \in GuardIds \ {g} : guards'[x] = guards[x]
             ELSE /\ last'.result = "OsError"
                  /\ guards' = guards
      ]_vars

\* a lock call returned 2: an OS error, no guard
C8_Witness ==
    /\ last.op = "lock"
    /\ engine.log[1].rc = 2
    /\ last.result = "OsError"

\* the store a live guard's lock is on
GuardStore(g) == engine.descs[guards[g].locked.db].path
GuardThread(g) == handles[guards[g].db].thread

C10_OpenFailurePaths ==
    [][(last'.op = "new" /\ last' # last) =>
          /\ HasNul(last'.key) =>
                (last'.result = "InvalidInput" /\ engine'.log = <<>> /\ handles' = handles)
          /\ ~HasNul(last'.key) =>
                (engine'.log # <<>> /\ engine'.log[1].fn = "mdbm_open")
          /\ (engine'.log # <<>> /\ engine'.log[1].rc = NULL) =>
                (last'.result = "OsError" /\ Len(engine'.log) = 1 /\ handles' = handles)
      ]_vars

\* a new with a 0 byte in its path failed while the store exists
C10_Witness ==
    /\ last.op = "new"
    /\ HasNul(last.key)
    /\ last.result = "InvalidInput"
    /\ \E p \in EnginePaths : engine.files[p].exists

\* C11: lock is independent of key presence.  With a sound lock table, a lock
\* on a key no set has stored returns a guard, a get through that guard
\* returns None, and the drop of that guard unlocks with return code 1.
C11_LockAbsentKey ==
    (last.op \in {"lock", "get", "drop_Lock"}
        /\ last.key \notin DOMAIN written[StoreOf(last.h)]) =>
            CASE last.op = "lock" -> last.result = "Ok" /\ guards[last.g].state = "live"
              [] last.op = "get" -> last.result = "None" /\ last.got = None
              [] last.op = "drop_Lock" -> last.result = "Ok" /\ engine.log[1].rc = 1

\* a get through a guard on a key never stored, on a store that holds another key
C11_Witness ==
    /\ last.op = "get"
    /\ last.key \notin DOMAIN written[StoreOf(last.h)]
    /\ DOMAIN written[StoreOf(last.h)] # {}
    /\ last.result = "None"

\* the live guards on a store
GuardsOn(p) == {g \in LiveGuards : GuardStore(g) = p}

ReadsAfterClose ==
    /\ last.op = "get"
    /\ handles[last.h].options.reads = "ReadOnly"
    /\ LiveHandles = {last.h}
    /\ last.key \in DOMAIN written[StoreOf(last.h)]

\* C13: durability across handle lifecycles.  A get through a fresh handle,
\* opened after the handle of the latest set of the key that returned Ok was
\* destroyed, returns the value of that set.
C13_Durability ==
    ReadsAfterClose => last.got = Some(written[StoreOf(last.h)][last.key])

\* a value read back through a fresh ReadOnly handle
C13_Witness ==
    /\ ReadsAfterClose
    /\ last.got = Some(written[StoreOf(last.h)][last.key])

\* C14: a failed set leaves the store unchanged, and reads stay available
\* under ReadOnly.  A set whose store call returned -1 returns an OS error
\* and changes no record of any store; a get through a ReadOnly handle
\* returns the record the store holds for the guard's key, None without one.
C14_FailedSetLeavesStore ==
    [][/\ (last'.op = "set" /\ last' # last /\ engine'.log[1].rc = -1) =>
             /\ last'.result = "OsError"
             /\ engine'.files = engine.files
             /\ written' = written
       /\ (last'.op = "get" /\ last' # last
             /\ handles[last'.h].options.reads = "ReadOnly") =>
             LET data == engine.files[StoreOf(last'.h)].data
             IN  last'.got = IF last'.key \in DOMAIN data
                             THEN Some(data[last'.key])
                             ELSE None
      ]_vars

\* a set of another value failed on a ReadOnly handle; the store holds the
\* key's earlier value
C14_Witness ==
    /\ last.op = "set"
    /\ last.result = "OsError"
    /\ handles[last.h].options.reads = "ReadOnly"
    /\ last.key \in DOMAIN engine.files[StoreOf(last.h)].data
    /\ engine.files[StoreOf(last.h)].data[last.key] # engine.log[1].val.dptr

\* C15: a set step makes one engine call, mdbm_store; it returns an OS error
\* exactly when that call returned -1 and Ok for every other return code; it
\* takes no lock: no guard is created and no store's lock word changes.
C15_SetErrorIffMinusOne ==
    [][(last'.op = "set" /\ last' # last) =>
          /\ Len(engine'.log) = 1
          /\ engine'.log[1].fn = "mdbm_store"
          /\ last'.result \in {"Ok", "OsError"}
          /\ (last'.result = "OsError") = (engine'.log[1].rc = -1)
          /\ guards' = guards
          /\ \A p \in EnginePaths :
                /\ engine'.files[p].owner = engine.files[p].owner
                /\ engine'.files[p].count = engine.files[p].count
      ]_vars

\* a set made while no guard is alive returned Ok on return code 1
C15_Witness ==
    /\ last.op = "set"
    /\ engine.log[1].rc = 1
    /\ last.result = "Ok"
    /\ LiveGuards = {}

\* C16: options encoding.  The three access modes have three distinct flags;
\* the flags a new passes to mdbm_open are the mode flag of options.reads,
\* OR'd with the create flag exactly when options.create; they do not depend
\* on options.hash; mdbm_set_hash is called only by a new whose mdbm_open
\* succeeded and whose options name a hash function, after mdbm_open, on the
\* descriptor returned and with that function's constant.
C16_OptionsEncoding ==
    /\ Cardinality({flag(r) : r \in ReadStates}) = Cardinality(ReadStates)
    /\ \A o1, o2 \in AllOptions :
          (o1.reads = o2.reads /\ o1.create = o2.create) => into(o1) = into(o2)
    /\ (last.op = "new" /\ ~HasNul(last.key)) =>
          /\ engine.log[1].fn = "mdbm_open"
          /\ engine.log[1].flags =
                IF last.options.create
                THEN BitOr(flag(last.options.reads), MDBM_O_CREAT)
                ELSE flag(last.options.reads)
          /\ CallsTo(engine.log, {"mdbm_set_hash"}) =
                IF last.result = "Ok" /\ last.options.hash.some THEN {2} ELSE {}
          /\ (last.result = "Ok" /\ last.options.hash.some) =>
                /\ engine.log[2].db = engine.log[1].rc
                /\ engine.log[2].flags = hash_constant(last.options.hash.val)
    /\ last.op # "new" => CallsTo(engine.log, {"mdbm_set_hash"}) = {}

\* a new with create = false and a hash function opened an existing store
C16_Witness ==
    /\ last.op = "new"
    /\ last.result = "Ok"
    /\ ~last.options.create
    /\ last.options.hash.some
    /\ engine.log[2].fn = "mdbm_set_hash"


\* ---- C17: guaranteed release ----
\* the calls of thread t are over and nothing of it is left: no view, guard
\* or handle of t is alive, the engine's open descriptors are exactly those
\* of the handles still alive, and, no unlock having failed, every store's
\* lock is held exactly as often as guards on it are alive
Released(t) ==
    /\ \A v \in views : handles[guards[v.lock].db].thread # t
    /\ \A g \in LiveGuards : GuardThread(g) # t
    /\ \A h \in LiveHandles : handles[h].thread # t
    /\ {d \in DescIds : engine.descs[d].state = "open"}
           = {handles[h].db : h \in LiveHandles}
    /\ panicking = {} =>
           \A p \in EnginePaths : engine.files[p].count = Cardinality(GuardsOn(p))

\* C17: on every exit path -- the scope ending, or unwinding from a panic --
\* every guard of the thread is eventually unlocked and every handle of it
\* synced and closed, unless the process is aborted by a failed unlock; a
\* thread that left without any failed unlock leaves no lock held and no
\* descriptor open.
C17_GuaranteedRelease ==
    \A t \in Threads : (t \in Leaving) ~> (aborted \/ Released(t))

\* the thread left its scope holding a handle, and its last drop closed the
\* last descriptor with no lock left held
C17_Witness ==
    /\ 1 \in exited
    /\ ~aborted /\ panicking = {}
    /\ last.op = "drop_MDBM"
    /\ CallsTo(engine.log, {"mdbm_sync"}) # {} /\ CallsTo(engine.log, {"mdbm_close"}) # {}
    /\ \A d \in DescIds : engine.descs[d].state = "closed"
    /\ \A p \in EnginePaths : engine.files[p].count = 0
    /\ \E p \in EnginePaths : DOMAIN written[p] # {}


\* ---- C18: stability of a returned view ----
\* C18: while a view returned by get is alive, no operation on the handle of
\* its guard changes the bytes it refers to: after every step made through
\* that handle the record the view points into is the one get returned.
C18_ViewStable ==
    [][\A v \in views :
          (v \in views' /\ last'.h = guards[v.lock].db)
             => Deref(engine', v.dptr) = v.bytes]_vars

\* a set through the handle of a live guard returned Ok and the record a
\* live view of that guard points into is no longer the one get returned
C18_Witness ==
    /\ last.op = "set" /\ last.result = "Ok"
    /\ \E v \in views :
          /\ guards[v.lock].state = "live"
          /\ guards[v.lock].db = last.h
          /\ guards[v.lock].key.bytes = last.key
          /\ Deref(engine, v.dptr) # v.bytes


\* ---- C19: view length fidelity ----
\* C19: the length field of the view handed to the engine equals the number
\* of bytes of the source, whatever that number is: the length hi * 2^31 + lo
\* gives the dsize hi * 2^31 + lo, which a 32-bit signed count can hold only
\* when hi = 0.
C19_LengthFidelity ==
    last.op = "to_raw_datum" => (last.key[1] = 0 /\ last.got.val = last.key[2])

\* a source of 2^32 + 1 bytes is handed to the engine as a view of 1 byte
C19_Witness ==
    /\ last.op = "to_raw_datum"
    /\ last.key = <<2, 1>>
    /\ last.got = Some(1)

====
